---- MODULE Spec2Model ----
(***************************************************************************)
(* State-machine model of src/src/main.rs: the fixed-capacity circular     *)
(* queue RingBuf<T> and the growable double-ended queue Deque<T>.          *)
(*                                                                         *)
(* Elements are moved by value, so every pushed element is a distinct      *)
(* object: the model names the k-th pushed element k (1, 2, ...).  A slot   *)
(* of a block is a record [v, st]: v the element whose bits the slot holds *)
(* and st what the slot is: "uninit" (never written), "live" (written, not *)
(* moved out), "moved" (moved out by ptr::read, the bits remain) or        *)
(* "dropped" (drop_in_place ran on it).  Garbage (0) stands for the        *)
(* indeterminate bits read from memory that holds no element.              *)
(*                                                                         *)
(* Specifications:                                                         *)
(*   RingSpec    RingBuf used by one caller: push, pop, drop               *)
(*   ResizeSpec  the same with the private RingBuf::resize                 *)
(*   ConcSpec    one thread in push and one in pop, step by step, with     *)
(*               Ordering::Relaxed on every atomic access                  *)
(*   DequeSpec   Deque: new / with_capacity, push_front, push_back, drop   *)
(*   DequeResizeSpec  the same with calls of the public Deque::resize      *)
(*   MpscSpec    ConcSpec with a second thread in push                     *)
(***************************************************************************)
EXTENDS Integers, Sequences, FiniteSets, TLC

\* ---------------------------------------------------------------- bounds
MaxCap == 3
MaxPush == 5
MaxTSize == 2
MaxCalls == 3
MaxResize == 1
MaxNewSize == 6

Garbage == 0

VARIABLES
    rb,         \* RingBuf fields: [items, head, tail, size, len]
    alloc,      \* number of slots the block behind rb.items really has
    tsize,      \* size_of::<T>() in bytes
    alive,      \* the RingBuf has not been dropped
    nextId,     \* the next element to be pushed
    popped,     \* the values returned by pop as Some(_), in call order
    dropped,    \* the slots drop_in_place ran on, in order, as of the drop
    last,       \* the last call: [op, full, ret]
    overflowed, \* some push was made with len == size
    clobbered,  \* the live elements a push has overwritten
    dq,         \* Deque fields: [items, head, tail, len, size]
    wild,       \* what memory outside the Deque's block holds, by slot index
    logical,    \* the elements pushed on the Deque, front to back
    grown,      \* the number of growths the pushes have triggered
    resized,    \* the number of calls of the public Deque::resize
    prod,       \* the thread in push: [pc, size, item, prev, slot]
    prod2,      \* a second thread in push, same fields
    cons,       \* the thread in pop: [pc, cur, head]
    wbuf,       \* element writes of push not yet visible to the pop thread
    raced,      \* pop has read a slot whose element was not readable
    filled      \* the queue has become full: size elements pushed, unread

ringVars == <<rb, alloc, tsize, alive, nextId, popped, dropped, last,
              overflowed, clobbered>>

dqVars == <<dq, wild, logical, grown, resized>>

concVars == <<prod, prod2, cons, wbuf, raced, filled>>

vars == <<ringVars, dqVars, concVars>>

Min(a, b) == IF a < b THEN a ELSE b

\* ------------------------------------------------------------ the block
Uninit == [v |-> Garbage, st |-> "uninit"]

FreshBlock(n) == [i \in 0..(n - 1) |-> Uninit]

InBlock(i, n) == 0 <= i /\ i < n

\* core::ptr::write(items.add(i), item): no drop of what the slot held.
\* A write outside the block is undefined behaviour; it leaves the block as
\* it is.
PtrWrite(mem, n, i, item) ==
    IF InBlock(i, n) THEN [mem EXCEPT ![i] = [v |-> item, st |-> "live"]]
    ELSE mem

\* core::ptr::read(items.add(i)): the bits of the slot, whatever it holds.
PtrRead(mem, n, i) ==
    IF InBlock(i, n) /\ mem[i].st # "uninit" THEN mem[i].v ELSE Garbage

\* The slot after its value has been moved out by ptr::read.
MoveOut(mem, n, i) ==
    IF InBlock(i, n) /\ mem[i].st = "live"
    THEN [mem EXCEPT ![i].st = "moved"]
    ELSE mem

\* -------------------------------------------------------------- RingBuf
\* RingBuf::new(cap)
RingNew(cap) ==
    [items |-> FreshBlock(cap), head |-> 0, tail |-> 0, size |-> cap,
     len |-> 0]

\* The closure of fetch_update on tail and on head: |v| (v + 1) % size
NextIdxNoWrap(v, sz) == v + 1

NextIdx(v, sz) == (v + 1) % sz

\* The closure of fetch_update on len in push: |v| (v + 1).min(size)
LenAfterPushNoMin(v, sz) == v + 1

LenAfterPush(v, sz) == Min(v + 1, sz)

\* The slot push writes: the value fetch_update returned, the old tail.
PushSlot(t, sz) == t

\* The slot pop reads: the value fetch_update returned, the old head.
PopSlot(h, sz) == h

\* len.fetch_sub(1): wrapping on usize, kept as the signed residue.
LenAfterPop(v) == v - 1

\* No Deque has been constructed.
NoDeque ==
    /\ dq = [items |-> FreshBlock(0), head |-> 0, tail |-> 0, len |-> 0,
             size |-> 0]
    /\ wild = <<>>
    /\ logical = <<>>
    /\ grown = 0
    /\ resized = 0

\* No thread is inside push or pop.
NoThreads ==
    /\ prod = [pc |-> "idle"]
    /\ prod2 = [pc |-> "idle"]
    /\ cons = [pc |-> "idle"]
    /\ wbuf = <<>>
    /\ raced = FALSE
    /\ filled = FALSE

RingInit ==
    /\ \E cap \in 0..MaxCap : rb = RingNew(cap) /\ alloc = cap
    /\ tsize = 1
    /\ alive = TRUE
    /\ nextId = 1
    /\ popped = <<>>
    /\ dropped = <<>>
    /\ last = [op |-> "new", full |-> FALSE, ret |-> "unit"]
    /\ overflowed = FALSE
    /\ clobbered = {}
    /\ NoDeque /\ NoThreads

\* RingBuf::push with a zero size: (v + 1) % size panics in the closure,
\* before anything is stored.
PushPanic ==
    /\ alive /\ nextId <= MaxPush
    /\ rb.size = 0
    /\ last' = [op |-> "push", full |-> (rb.len = rb.size), ret |-> "panic"]
    /\ nextId' = nextId + 1
    /\ UNCHANGED <<dqVars, concVars>>
    /\ UNCHANGED <<rb, alloc, tsize, alive, popped, dropped, overflowed,
                   clobbered>>

\* RingBuf::push(item), run alone from entry to return.
Push ==
    /\ alive /\ nextId <= MaxPush
    /\ rb.size > 0
    /\ LET item == nextId
           size == rb.size
           slot == PushSlot(rb.tail, size)
           hit  == IF InBlock(slot, alloc) /\ rb.items[slot].st = "live"
                   THEN {rb.items[slot].v} ELSE {}
       IN /\ rb' = [rb EXCEPT
                      !.tail = NextIdx(rb.tail, size),
                      !.items = PtrWrite(rb.items, alloc, slot, item),
                      !.len = LenAfterPush(rb.len, size)]
          /\ clobbered' = clobbered \cup hit
          /\ overflowed' = (overflowed \/ rb.len = rb.size)
          /\ last' = [op |-> "push", full |-> (rb.len = rb.size),
                      ret |-> "unit"]
    /\ nextId' = nextId + 1
    /\ UNCHANGED <<dqVars, concVars>>
    /\ UNCHANGED <<alloc, tsize, alive, popped, dropped>>

\* RingBuf::pop on an empty queue: None.
PopNone ==
    /\ alive
    /\ rb.len = 0
    /\ last' = [op |-> "pop", full |-> (rb.len = rb.size), ret |-> "None"]
    /\ UNCHANGED <<dqVars, concVars>>
    /\ UNCHANGED <<rb, alloc, tsize, alive, nextId, popped, dropped,
                   overflowed, clobbered>>

\* RingBuf::pop with len /= 0: Some(item).  With size == 0 the closure on
\* head would panic, but len /= 0 needs size > 0.
Pop ==
    /\ alive
    /\ rb.len # 0 /\ rb.size > 0
    /\ Len(popped) < MaxPush
    /\ LET slot == PopSlot(rb.head, rb.size)
           item == PtrRead(rb.items, alloc, slot)
       IN /\ rb' = [rb EXCEPT
                      !.head = NextIdx(rb.head, rb.size),
                      !.items = MoveOut(rb.items, alloc, slot),
                      !.len = LenAfterPop(rb.len)]
          /\ popped' = Append(popped, item)
          /\ last' = [op |-> "pop", full |-> (rb.len = rb.size),
                      ret |-> "Some"]
    /\ UNCHANGED <<dqVars, concVars>>
    /\ UNCHANGED <<alloc, tsize, alive, nextId, dropped, overflowed,
                   clobbered>>

\* for i in head..tail: the half-open linear range of Drop.
DropRange(h, t) ==
    [k \in 1..(IF t > h THEN t - h ELSE 0) |-> h + k - 1]

SlotAt(mem, n, i) == IF InBlock(i, n) THEN mem[i] ELSE Uninit

\* impl Drop for RingBuf: drop_in_place on every slot of the range, then
\* the block is released.
RingDrop ==
    /\ alive
    /\ LET rng == DropRange(rb.head, rb.tail)
       IN /\ dropped' = [k \in 1..Len(rng) |-> SlotAt(rb.items, alloc, rng[k])]
          /\ rb' = [rb EXCEPT !.items =
                      [i \in DOMAIN rb.items |->
                         IF \E k \in 1..Len(rng) : rng[k] = i
                         THEN [rb.items[i] EXCEPT !.st = "dropped"]
                         ELSE rb.items[i]]]
    /\ alive' = FALSE
    /\ last' = [op |-> "drop", full |-> (rb.len = rb.size), ret |-> "unit"]
    /\ UNCHANGED <<dqVars, concVars>>
    /\ UNCHANGED <<alloc, tsize, nextId, popped, overflowed, clobbered>>

RingNext == PushPanic \/ Push \/ PopNone \/ Pop \/ RingDrop

RingSpec == RingInit /\ [][RingNext]_vars

\* ------------------------------------------------------ RingBuf claims
\* The elements handed to a caller by pop, then those destroyed by Drop.
HandedOut == popped \o [k \in 1..Len(dropped) |-> dropped[k].v]

\* The slots of the live range the fields describe: head forward modulo
\* size, len of them.
LiveRange == {(rb.head + k) % rb.size : k \in 0..(rb.len - 1)}

LiveSlots == {i \in DOMAIN rb.items : rb.items[i].st = "live"}

\* C1: a push made on a full queue (len == size, size >= 1) signals
\* CapacityExceeded, overwrites no live element and leaves len as it was.
C1_FullPushRejected ==
    (last.op = "push" /\ last.full /\ rb.size >= 1) =>
        /\ last.ret = "CapacityExceeded"
        /\ clobbered = {}
        /\ rb.len = rb.size

\* C2: as long as no push was made on a full queue, the i-th pop that
\* returns Some returns the i-th pushed element: pops return the elements
\* in exactly push order, the oldest not yet popped first.
C2_FifoOrder ==
    ~overflowed => \A i \in 1..Len(popped) : popped[i] = i

\* C2 witness: a queue of capacity 2 whose third and fourth elements went
\* through slots reused after head and tail wrapped, four pops made.
C2_Witness ==
    /\ ~overflowed /\ rb.size = 2 /\ Len(popped) = 4 /\ last.op = "pop"
    /\ rb.head = 0 /\ rb.tail = 1 /\ rb.len = 1

\* C3: in every state of a live queue, tail == (head + len) mod size and
\* the slots holding live elements are exactly head, head+1, ...,
\* head+len-1 modulo size.
C3_LiveRange ==
    (alive /\ rb.size >= 1) =>
        /\ rb.tail = (rb.head + rb.len) % rb.size
        /\ LiveSlots = LiveRange

\* C4: dropping the queue (no push on a full queue made before) runs
\* drop_in_place exactly once on each of the len live elements, walking
\* from head forward modulo size, and on no other slot.
C4_DropLiveOnce ==
    (~alive /\ ~overflowed /\ rb.size >= 1) =>
        /\ Len(dropped) = rb.len
        /\ \A k \in 1..Len(dropped) :
              /\ dropped[k].st = "live"
              /\ dropped[k].v = rb.items[(rb.head + k - 1) % rb.size].v

\* C5: no pushed element is handed out by pop or destroyed by Drop more
\* than once, over any pushes and pops followed by the drop.
C5_SingleOwnership ==
    \A i, j \in 1..Len(HandedOut) :
        (i # j /\ HandedOut[i] # Garbage) => HandedOut[i] # HandedOut[j]

\* ------------------------------------------------------ RingBuf::resize
\* alloc::realloc(items, Layout::array::<T>(old size), new_size): the third
\* argument is the new size in BYTES, so the new block has room for
\* new_size / size_of::<T>() slots.
ReallocSlots(new_size, ts) == new_size \div ts

\* The block after realloc: the bytes up to the smaller of the two sizes
\* are kept where they are, slot i stays slot i; nothing is moved.
Realloc(mem, n, m) ==
    [i \in 0..(m - 1) |-> IF i < n THEN mem[i] ELSE Uninit]

\* The queue front to back as the fields describe it: len slots from head,
\* modulo size.
LogicalView ==
    [k \in 1..rb.len |-> SlotAt(rb.items, alloc, (rb.head + k - 1) % rb.size)]

ResizeInit ==
    /\ \E cap \in 1..MaxCap : rb = RingNew(cap) /\ alloc = cap
    /\ tsize \in 1..MaxTSize
    /\ alive = TRUE
    /\ nextId = 1
    /\ popped = <<>>
    /\ dropped = <<>>
    /\ last = [op |-> "new", full |-> FALSE, ret |-> "unit"]
    /\ overflowed = FALSE
    /\ clobbered = {}
    /\ NoDeque /\ NoThreads

\* RingBuf::resize(new_size), with exclusive access (&mut self).
Resize(new_size) ==
    /\ alive
    /\ LET m == ReallocSlots(new_size, tsize)
       IN /\ rb' = [rb EXCEPT
                      !.size = new_size,
                      !.items = Realloc(rb.items, alloc, m),
                      !.head = 0,
                      !.tail = rb.len]
          /\ alloc' = m
    /\ last' = [op |-> "resize", full |-> (rb.len = rb.size), ret |-> "unit",
                fits |-> (new_size >= rb.len), before |-> LogicalView]
    /\ UNCHANGED <<dqVars, concVars>>
    /\ UNCHANGED <<tsize, alive, nextId, popped, dropped, overflowed,
                   clobbered>>

ResizeNext ==
    Push \/ PopNone \/ Pop \/ \E new_size \in 1..(MaxCap + 1) : Resize(new_size)

ResizeSpec == ResizeInit /\ [][ResizeNext]_vars

\* C10: right after resize(new_size) with new_size >= len (one-byte
\* elements, no push on a full queue before), head == 0, tail == len and
\* slots 0..len-1 hold the live elements in logical order, oldest first,
\* exactly as the queue held them front to back before the call.
C10_ResizeKeepsQueue ==
    (last.op = "resize" /\ last.fits /\ tsize = 1 /\ ~overflowed) =>
        /\ rb.head = 0
        /\ rb.tail = rb.len
        /\ Len(last.before) = rb.len
        /\ \A k \in 1..rb.len :
              SlotAt(rb.items, alloc, k - 1) = last.before[k]

\* ---------------------------------------------------------------- Deque
\* usize values are kept as their signed residue modulo 2^64: -1 stands
\* for usize::MAX, which is what head - 1 wraps to at head == 0 in a build
\* without overflow checks.  Comparisons are those of usize.
ULess(a, b) ==
    \/ a >= 0 /\ b >= 0 /\ a < b
    \/ a >= 0 /\ b < 0
    \/ a < 0 /\ b < 0 /\ a < b

\* The indices of the Rust range a..b over usize, in order.
URange(a, b) ==
    IF ULess(a, b) /\ (a >= 0 <=> b >= 0)
    THEN [k \in 1..(b - a) |-> a + k - 1]
    ELSE <<>>

\* No RingBuf has been constructed.
NoRing ==
    /\ rb = RingNew(0) /\ alloc = 0 /\ tsize = 1
    /\ popped = <<>>
    /\ overflowed = FALSE
    /\ clobbered = {}

\* Deque::new()
DequeNew ==
    [items |-> FreshBlock(4), head |-> 2, tail |-> 2, len |-> 0, size |-> 4]

\* Deque::with_capacity(cap)
DequeWithCapacityLow(cap) ==
    [items |-> FreshBlock(cap), head |-> 0, tail |-> 0, len |-> 0, size |-> cap]

DequeWithCapacity(cap) ==
    [items |-> FreshBlock(cap), head |-> cap \div 2, tail |-> cap \div 2,
     len |-> 0, size |-> cap]

\* What slot i of the Deque's memory holds: a slot of the block, or memory
\* outside the block.
DqSlot(d, w, i) ==
    IF InBlock(i, d.size) THEN d.items[i]
    ELSE IF i \in DOMAIN w THEN w[i] ELSE Uninit

\* Slot i written with the record r.  A write outside the block is
\* undefined behaviour: the memory there either keeps what was written
\* (stick) or does not.
DqWritten(d, w, i, r, stick) ==
    IF InBlock(i, d.size)
    THEN [d |-> [d EXCEPT !.items[i] = r], w |-> w]
    ELSE [d |-> d,
          w |-> [j \in (DOMAIN w) \cup {i} |->
                   IF j = i THEN (IF stick THEN r ELSE Uninit) ELSE w[j]]]

\* Where resize copies the live range to in the new block:
\* new_alloc.add(self.head + self.size), with the old size.
CopyDest(d, new_size) == d.head + d.size

\* The new head: self.head + self.size / 2, read after self.size = new_size.
HeadAfterResize(d, new_size) == d.head + new_size \div 2

TailAfterResize(d, new_size) == d.tail + new_size \div 2

\* Deque::resize(new_size): the Deque and the memory outside its block
\* after the call.
DqResized(d, w, new_size, stick) ==
    LET dst == CopyDest(d, new_size)
        src == [k \in 0..(d.len - 1) |-> DqSlot(d, w, d.head + k)]
        to  == {dst + k : k \in 0..(d.len - 1)}
    IN [d |-> [items |-> [i \in 0..(new_size - 1) |->
                            IF i \in to THEN src[i - dst] ELSE Uninit],
               size |-> new_size,
               head |-> HeadAfterResize(d, new_size),
               tail |-> TailAfterResize(d, new_size),
               len |-> d.len],
        w |-> [i \in to \ (0..(new_size - 1)) |->
                 IF stick THEN src[i - dst] ELSE Uninit]]

\* if self.head == 0 { self.resize(self.size * 2) } of push_front
GrownFront(d, w, stick) ==
    IF d.head = 0 THEN DqResized(d, w, d.size * 2, stick)
    ELSE [d |-> d, w |-> w]

\* if self.tail == self.size { self.resize(self.size * 2) } of push_back
GrownBack(d, w, stick) ==
    IF d.tail = d.size THEN DqResized(d, w, d.size * 2, stick)
    ELSE [d |-> d, w |-> w]

DequeInit ==
    /\ \/ dq = DequeNew
       \/ \E cap \in 0..MaxCap : dq = DequeWithCapacity(cap)
    /\ wild = <<>>
    /\ logical = <<>>
    /\ grown = 0
    /\ resized = 0
    /\ alive = TRUE
    /\ nextId = 1
    /\ dropped = <<>>
    /\ last = [op |-> "new", ret |-> "unit", grew |-> FALSE, slot |-> 0]
    /\ NoRing /\ NoThreads

\* Deque::push_front(item)
PushFront ==
    /\ alive /\ nextId <= MaxPush
    /\ \E stick \in BOOLEAN :
         LET g == GrownFront(dq, wild, stick)
             h == g.d.head - 1
             r == DqWritten([g.d EXCEPT !.head = h], g.w, h,
                            [v |-> nextId, st |-> "live"], stick)
         IN /\ g.d.head # 0
            /\ dq' = [r.d EXCEPT !.len = @ + 1]
            /\ wild' = r.w
            /\ grown' = grown + (IF dq.head = 0 THEN 1 ELSE 0)
            /\ last' = [op |-> "push_front", ret |-> "unit",
                        grew |-> (dq.head = 0), slot |-> h]
    /\ logical' = <<nextId>> \o logical
    /\ nextId' = nextId + 1
    /\ UNCHANGED <<alive, dropped>>
    /\ UNCHANGED <<rb, alloc, tsize, popped, overflowed, clobbered, concVars,
                   resized>>

\* Deque::push_front(item) when head is still 0 after the growth (size 0):
\* self.head -= 1 underflows.  A build with overflow checks panics there;
\* one without wraps head to usize::MAX and writes through it.
PushFrontUnderflow ==
    /\ alive /\ nextId <= MaxPush
    /\ \E stick \in BOOLEAN, checks \in BOOLEAN :
         LET g == GrownFront(dq, wild, stick)
             h == g.d.head - 1
             r == DqWritten([g.d EXCEPT !.head = h], g.w, h,
                            [v |-> nextId, st |-> "live"], stick)
         IN /\ g.d.head = 0
            /\ IF checks
               THEN /\ dq' = g.d
                    /\ wild' = g.w
                    /\ logical' = logical
                    /\ last' = [op |-> "push_front", ret |-> "panic",
                                grew |-> (dq.head = 0), slot |-> h]
               ELSE /\ dq' = [r.d EXCEPT !.len = @ + 1]
                    /\ wild' = r.w
                    /\ logical' = <<nextId>> \o logical
                    /\ last' = [op |-> "push_front", ret |-> "unit",
                                grew |-> (dq.head = 0), slot |-> h]
            /\ grown' = grown + (IF dq.head = 0 THEN 1 ELSE 0)
    /\ nextId' = nextId + 1
    /\ UNCHANGED <<alive, dropped>>
    /\ UNCHANGED <<rb, alloc, tsize, popped, overflowed, clobbered, concVars,
                   resized>>

\* Deque::push_back(item)
PushBack ==
    /\ alive /\ nextId <= MaxPush
    /\ \E stick \in BOOLEAN :
         LET g == GrownBack(dq, wild, stick)
             t == g.d.tail
             r == DqWritten(g.d, g.w, t, [v |-> nextId, st |-> "live"],
                            stick)
         IN /\ dq' = [r.d EXCEPT !.tail = @ + 1, !.len = @ + 1]
            /\ wild' = r.w
            /\ grown' = grown + (IF dq.tail = dq.size THEN 1 ELSE 0)
            /\ last' = [op |-> "push_back", ret |-> "unit",
                        grew |-> (dq.tail = dq.size), slot |-> t]
    /\ logical' = Append(logical, nextId)
    /\ nextId' = nextId + 1
    /\ UNCHANGED <<alive, dropped>>
    /\ UNCHANGED <<rb, alloc, tsize, popped, overflowed, clobbered, concVars,
                   resized>>

\* impl Drop for Deque: drop_in_place on the slots head..tail, in order.
DequeDrop ==
    /\ alive
    /\ LET rng == URange(dq.head, dq.tail)
       IN dropped' = [k \in 1..Len(rng) |-> DqSlot(dq, wild, rng[k])]
    /\ alive' = FALSE
    /\ last' = [op |-> "drop", ret |-> "unit", grew |-> FALSE, slot |-> 0]
    /\ UNCHANGED <<dq, wild, logical, grown, nextId>>
    /\ UNCHANGED <<rb, alloc, tsize, popped, overflowed, clobbered, concVars,
                   resized>>

\* impl Debug for Deque: the values of the field "items", front to back.
DebugItems ==
    LET idx == IF ULess(dq.tail, dq.head)
               THEN URange(dq.head, dq.size) \o URange(0, dq.tail)
               ELSE URange(dq.head, dq.tail)
    IN [k \in 1..Len(idx) |->
          LET s == DqSlot(dq, wild, idx[k])
          IN IF s.st = "uninit" THEN Garbage ELSE s.v]

DequeNext == PushFront \/ PushFrontUnderflow \/ PushBack \/ DequeDrop

DequeSpec == DequeInit /\ [][DequeNext]_vars

\* --------------------------------------------------------- Deque claims
\* C6: after any pushes on a Deque made by new() or with_capacity(n),
\* n >= 1, 0 <= head <= tail <= size and the slots of [head, tail) are
\* exactly the slots holding pushed elements.
C6_IndexInvariant ==
    (alive /\ dq.size >= 1) =>
        /\ 0 <= dq.head /\ dq.head <= dq.tail /\ dq.tail <= dq.size
        /\ {i \in DOMAIN dq.items : dq.items[i].st = "live"}
              = {i \in DOMAIN dq.items : dq.head <= i /\ i < dq.tail}

\* C7: once a push has triggered a growth (of a Deque of capacity >= 1),
\* the front-to-back view Debug renders is exactly the logical sequence
\* the pushes built.
C7_GrowthKeepsOrder ==
    (alive /\ grown >= 1 /\ dq.size >= 1) => DebugItems = logical

\* ------------------------------------------- RingBuf, push and pop racing
\* One thread calls push and another calls pop on the same RingBuf; a step
\* is one atomic operation or one plain memory access of the code.
\*
\* AtomicUsize::fetch_update(_, _, f) is
\*     prev = load; loop { compare_exchange_weak(prev, f(prev)):
\*                         Ok => return prev, Err(now) => prev = now }
\* Every atomic access is Ordering::Relaxed, so the plain write of the
\* element (ptr::write) is not ordered before the later update of len: it
\* reaches the memory the other thread reads at some later time (wbuf
\* holds it until then).

\* compare_exchange_weak succeeds only if the current value is the expected.
CasHolds(cur, prev) == cur = prev

\* Err(next_prev) => prev = next_prev: the retry uses the value just seen.
PrevStale(cur, prev) == prev

PrevAfterFail(cur, prev) == cur

ConcInit ==
    /\ \E cap \in 1..MaxCap : rb = RingNew(cap) /\ alloc = cap
    /\ tsize = 1
    /\ alive = TRUE
    /\ nextId = 1
    /\ popped = <<>>
    /\ dropped = <<>>
    /\ last = [op |-> "new", ret |-> "unit"]
    /\ overflowed = FALSE
    /\ clobbered = {}
    /\ NoDeque /\ NoThreads

ProdUnchanged ==
    UNCHANGED <<alloc, tsize, alive, popped, dropped, last, overflowed,
                clobbered, dqVars, prod2, cons, raced>>

ConsUnchanged ==
    UNCHANGED <<alloc, tsize, alive, nextId, dropped, overflowed, clobbered,
                dqVars, prod, prod2, wbuf, filled>>

\* push: let size = self.size.load(Relaxed); then the load that opens
\* fetch_update on tail.
PushStart ==
    /\ prod.pc = "idle" /\ nextId <= MaxCalls
    /\ prod' = [pc |-> "tail_cas", size |-> rb.size, item |-> nextId,
                prev |-> rb.tail, slot |-> 0]
    /\ nextId' = nextId + 1
    /\ UNCHANGED <<rb, wbuf, filled>>
    /\ ProdUnchanged

\* push: compare_exchange_weak on tail succeeds; tail is the old value.
PushTailCas ==
    /\ prod.pc = "tail_cas"
    /\ CasHolds(rb.tail, prod.prev)
    /\ rb' = [rb EXCEPT !.tail = NextIdx(prod.prev, prod.size)]
    /\ prod' = [prod EXCEPT !.pc = "write",
                            !.slot = PushSlot(prod.prev, prod.size)]
    /\ filled' = (filled \/ prod.item - Len(popped) >= rb.size)
    /\ UNCHANGED <<nextId, wbuf>>
    /\ ProdUnchanged

\* push: compare_exchange_weak on tail fails (the value changed, or
\* spuriously); the loop retries with the value seen.
PushTailRetry ==
    /\ prod.pc = "tail_cas"
    /\ prod' = [prod EXCEPT !.prev = PrevAfterFail(rb.tail, prod.prev)]
    /\ UNCHANGED <<rb, nextId, wbuf, filled>>
    /\ ProdUnchanged

\* push: core::ptr::write(self.items.add(tail), item), a plain write; then
\* the load that opens fetch_update on len.
PushWrite ==
    /\ prod.pc = "write"
    /\ wbuf' = Append(wbuf, [slot |-> prod.slot, item |-> prod.item])
    /\ prod' = [prod EXCEPT !.pc = "len_cas", !.prev = rb.len]
    /\ UNCHANGED <<rb, nextId, filled>>
    /\ ProdUnchanged

\* push: compare_exchange_weak on len succeeds; push returns.
PushLenCas ==
    /\ prod.pc = "len_cas"
    /\ CasHolds(rb.len, prod.prev)
    /\ rb' = [rb EXCEPT !.len = LenAfterPush(prod.prev, prod.size)]
    /\ prod' = [pc |-> "idle"]
    /\ UNCHANGED <<nextId, wbuf, filled>>
    /\ ProdUnchanged

\* push: compare_exchange_weak on len fails; the loop retries.
PushLenRetry ==
    /\ prod.pc = "len_cas"
    /\ prod' = [prod EXCEPT !.prev = PrevAfterFail(rb.len, prod.prev)]
    /\ UNCHANGED <<rb, nextId, wbuf, filled>>
    /\ ProdUnchanged

\* The element write of an earlier push reaches the memory pop reads.
WriteVisible ==
    /\ \E k \in 1..Len(wbuf) :
         /\ rb' = [rb EXCEPT !.items =
                     PtrWrite(rb.items, alloc, wbuf[k].slot, wbuf[k].item)]
         /\ wbuf' = [j \in 1..(Len(wbuf) - 1) |->
                       IF j < k THEN wbuf[j] ELSE wbuf[j + 1]]
    /\ UNCHANGED <<nextId, prod, prod2, cons, raced, filled, popped, last>>
    /\ UNCHANGED <<alloc, tsize, alive, dropped, overflowed, clobbered,
                   dqVars>>

\* pop: self.len.load(Relaxed) == 0, return None.
PopEmpty ==
    /\ cons.pc = "idle"
    /\ rb.len = 0
    /\ last' = [op |-> "pop", ret |-> "None"]
    /\ UNCHANGED <<rb, cons, popped, raced>>
    /\ ConsUnchanged

\* pop: len is not 0; the load that opens fetch_update on head.
PopStart ==
    /\ cons.pc = "idle" /\ Len(popped) < MaxCalls
    /\ rb.len # 0
    /\ cons' = [pc |-> "head_cas", prev |-> rb.head, slot |-> 0, item |-> 0]
    /\ UNCHANGED <<rb, popped, raced, last>>
    /\ ConsUnchanged

\* pop: compare_exchange_weak on head succeeds; head is the old value.
PopHeadCas ==
    /\ cons.pc = "head_cas"
    /\ CasHolds(rb.head, cons.prev)
    /\ rb' = [rb EXCEPT !.head = NextIdx(cons.prev, rb.size)]
    /\ cons' = [cons EXCEPT !.pc = "read",
                            !.slot = PopSlot(cons.prev, rb.size)]
    /\ UNCHANGED <<popped, raced, last>>
    /\ ConsUnchanged

\* pop: compare_exchange_weak on head fails; the loop retries.
PopHeadRetry ==
    /\ cons.pc = "head_cas"
    /\ cons' = [cons EXCEPT !.prev = PrevAfterFail(rb.head, cons.prev)]
    /\ UNCHANGED <<rb, popped, raced, last>>
    /\ ConsUnchanged

\* pop: core::ptr::read(self.items.add(head)), a plain read of what the
\* slot holds in the memory this thread sees.
PopRead ==
    /\ cons.pc = "read"
    /\ cons' = [cons EXCEPT !.pc = "len_sub",
                            !.item = PtrRead(rb.items, alloc, cons.slot)]
    /\ rb' = [rb EXCEPT !.items = MoveOut(rb.items, alloc, cons.slot)]
    /\ raced' = (raced \/ SlotAt(rb.items, alloc, cons.slot).st # "live")
    /\ popped' = Append(popped, PtrRead(rb.items, alloc, cons.slot))
    /\ UNCHANGED last
    /\ ConsUnchanged

\* pop: self.len.fetch_sub(1, Relaxed); return Some(item).
PopLenSub ==
    /\ cons.pc = "len_sub"
    /\ rb' = [rb EXCEPT !.len = LenAfterPop(rb.len)]
    /\ cons' = [pc |-> "idle"]
    /\ last' = [op |-> "pop", ret |-> "Some"]
    /\ UNCHANGED <<popped, raced>>
    /\ ConsUnchanged

ProdStep ==
    PushStart \/ PushTailCas \/ PushTailRetry \/ PushWrite \/ PushLenCas
        \/ PushLenRetry

ConsStep ==
    PopEmpty \/ PopStart \/ PopHeadCas \/ PopHeadRetry \/ PopRead
        \/ PopLenSub

ConcNext == ProdStep \/ ConsStep \/ WriteVisible

ConcSpec == ConcInit /\ [][ConcNext]_vars

\* The thread in push is scheduled fairly, and a compare_exchange_weak
\* whose expected value is current does not fail spuriously for ever.
ProdFair ==
    WF_vars(ProdStep) /\ SF_vars(PushTailCas) /\ SF_vars(PushLenCas)

\* The same for the thread in pop.
ConsFair == WF_vars(ConsStep) /\ SF_vars(PopHeadCas)

\* C8: one producer, one consumer, the queue never full: every slot pop
\* reads holds an element whose write by push has completed, one not yet
\* moved out.
C8_PopReadsWrittenSlot ==
    ~filled => ~raced

\* C9: every push that has started returns in every run that schedules
\* the pushing thread fairly, whatever the popping thread does (it may
\* stop in the middle of pop), and every pop that has started returns in
\* every run that schedules the popping thread fairly, whatever the
\* pushing thread does: the retry loops of fetch_update on tail, head and
\* len end, and neither call waits for the other.
C9_CallsComplete ==
    /\ ProdFair => ((prod.pc # "idle") ~> (prod.pc = "idle"))
    /\ ConsFair => ((cons.pc # "idle") ~> (cons.pc = "idle"))

\* C9 witness: a push and a pop are inside their calls at the same time,
\* on a queue that is neither empty nor full, and the push has had to
\* retry its update of len because the pop changed it.
C9_Witness ==
    /\ prod.pc = "len_cas" /\ cons.pc = "idle" /\ last.ret = "Some"
    /\ rb.len # prod.prev /\ ~filled

\* ------------------------------------------- RingBuf claims, continued
\* C11: a pop made with len == 0 returns None and leaves head, tail, len
\* and the slots as they were; and a pop that follows a push(x) made with
\* len == 0 returns Some(x).
C11_EmptyPopThenPush ==
    [][/\ (rb.len = 0 /\ last'.op = "pop") =>
             (last'.ret = "None" /\ rb' = rb)
       /\ (last.op = "push" /\ ~last.full /\ rb.len = 1 /\ rb.size >= 1
              /\ last'.op = "pop") =>
             (last'.ret = "Some" /\ popped' = Append(popped, nextId - 1))
      ]_vars

\* C12: in every state reached by interleaving the steps of one thread in
\* push and one in pop, 0 <= head < size, 0 <= tail < size and
\* 0 <= len <= size.
C12_IndexBounds ==
    rb.size >= 1 =>
        /\ 0 <= rb.head /\ rb.head < rb.size
        /\ 0 <= rb.tail /\ rb.tail < rb.size
        /\ 0 <= rb.len /\ rb.len <= rb.size

\* C12 witness: pushes were made on the full queue, len is at size, and
\* a pop is about to decrement len while a push is about to update it.
C12_Witness ==
    /\ filled /\ rb.len = rb.size /\ rb.size = 2 /\ nextId > 3
    /\ cons.pc = "len_sub" /\ prod.pc = "len_cas"

\* C13: on a queue built with capacity 0 every push reports
\* CapacityExceeded and every pop returns None; no call panics or divides
\* by zero.
C13_ZeroCapacity ==
    rb.size = 0 =>
        /\ last.op = "push" => last.ret = "CapacityExceeded"
        /\ last.op = "pop" => last.ret = "None"
        /\ last.ret # "panic"


\* ---------------------------------------------- Deque claims, continued
\* C14: immediately after every growth, head > 0 and tail < size, so the
\* push that caused the growth proceeds without another growth.  The state
\* after the push is read back: its own decrement of head or increment of
\* tail is undone.
C14_GrowthRecenters ==
    (last.grew /\ dq.size >= 1 /\ last.ret = "unit") =>
        /\ last.op = "push_front" => (dq.head + 1 > 0 /\ dq.tail < dq.size)
        /\ last.op = "push_back" => (dq.head > 0 /\ dq.tail - 1 < dq.size)


\* C15: destroying the deque drops every element that was pushed and is
\* still in it exactly once, in index order, and touches only slots of
\* [head, tail), all of them inside the allocated block.
C15_DropLiveOnce ==
    (~alive /\ dq.size >= 1) =>
        /\ \A k \in 1..Len(URange(dq.head, dq.tail)) :
              InBlock(URange(dq.head, dq.tail)[k], dq.size)
        /\ Len(dropped) = Len(logical)
        /\ \A k \in 1..Len(dropped) :
              /\ dropped[k].st = "live"
              /\ dropped[k].v = logical[k]


\* The capacity the deque was constructed with: every growth doubled it.
InitialCap == dq.size \div (2 ^ grown)

\* C16, as stated: for new() or with_capacity(n) for every n, the fresh
\* deque has head == tail == size / 2 and len == 0, and the first push on
\* it, push_front or push_back, completes without a growth.
C16_InitialHeadroom ==
    /\ nextId = 1 =>
          (dq.head = dq.size \div 2 /\ dq.tail = dq.size \div 2 /\ dq.len = 0)
    /\ (nextId = 2 /\ last.op \in {"push_front", "push_back"}) =>
          (~last.grew /\ last.ret = "unit")

\* C16, amended: every fresh deque has head == tail == size / 2 and
\* len == 0; the first push on it, when it is a push_front, completes
\* without a growth exactly when the initial capacity is at least 2, and
\* when it is a push_back, exactly when the initial capacity is at least 1.
C16_InitialHeadroomFrom2 ==
    /\ nextId = 1 =>
          (dq.head = dq.size \div 2 /\ dq.tail = dq.size \div 2 /\ dq.len = 0)
    /\ (nextId = 2 /\ last.op = "push_front") =>
          /\ ~last.grew <=> InitialCap >= 2
          /\ InitialCap >= 2 => last.ret = "unit"
    /\ (nextId = 2 /\ last.op = "push_back") =>
          /\ ~last.grew <=> InitialCap >= 1
          /\ InitialCap >= 1 => last.ret = "unit"

\* C16 witness: the first push_front on a fresh deque of capacity 2 has
\* used the one slot in front of head, without a growth.
C16_Witness ==
    /\ nextId = 2 /\ last.op = "push_front" /\ InitialCap = 2
    /\ grown = 0 /\ dq.head = 0 /\ dq.len = 1


\* C17: the deque offers PopFront and PopBack: while it holds an element,
\* some operation of the Deque removes the front-most element and leaves
\* the rest, and some operation removes the back-most and leaves the rest.
C17_PopOrder ==
    (alive /\ Len(logical) > 0) =>
        /\ ENABLED (DequeNext /\ logical' = Tail(logical))
        /\ ENABLED (DequeNext
                       /\ logical' = SubSeq(logical, 1, Len(logical) - 1))


\* C18: the slot written by each push (head - 1 for push_front, tail for
\* push_back, after any growth made by the same call) is inside the block,
\* 0 <= index < size, and head - 1 never underflows.
C18_WritesInsideBlock ==
    (last.op \in {"push_front", "push_back"} /\ dq.size >= 1) =>
        /\ last.ret # "panic"
        /\ InBlock(last.slot, dq.size)


\* ------------------------------------------------- Deque::resize, public
\* pub fn resize(&mut self, new_size): a caller may pass any new_size.
DequeResize(new_size) ==
    /\ alive /\ resized < MaxResize
    /\ \E stick \in BOOLEAN :
          LET r == DqResized(dq, wild, new_size, stick)
          IN /\ dq' = r.d
             /\ wild' = r.w
    /\ resized' = resized + 1
    /\ last' = [op |-> "resize", ret |-> "unit", grew |-> FALSE,
                slot |-> CopyDest(dq, new_size)]
    /\ UNCHANGED <<logical, grown, nextId, alive, dropped>>
    /\ UNCHANGED <<rb, alloc, tsize, popped, overflowed, clobbered, concVars>>

DequeResizeNext ==
    \/ DequeNext
    \/ \E new_size \in 1..MaxNewSize : DequeResize(new_size)

DequeResizeSpec == DequeInit /\ [][DequeResizeNext]_vars

\* C19: after resize(new_size) with new_size >= len, the destination of
\* the copy, [head + old size, head + old size + len), is inside the new
\* block and is the new [head, tail), and [head, tail) holds the elements
\* it held before the call, in the same order, with len unchanged.  Only
\* deques that hold an element and that no push has grown are looked at.
C19_ResizeAnySize ==
    (last.op = "resize" /\ dq.size >= dq.len /\ dq.len >= 1 /\ grown = 0) =>
        /\ 0 <= last.slot /\ last.slot + dq.len <= dq.size
        /\ last.slot = dq.head /\ dq.tail = dq.head + dq.len
        /\ dq.len = Len(logical)
        /\ \A k \in 1..dq.len :
              DqSlot(dq, wild, dq.head + k - 1)
                  = [v |-> logical[k], st |-> "live"]


\* ------------------------------------------- RingBuf: a second producer
\* push takes &self, so a second thread may be inside push at the same
\* time.  Its steps are those of the first.
Prod2Unchanged ==
    UNCHANGED <<alloc, tsize, alive, popped, dropped, last, overflowed,
                clobbered, dqVars, prod, cons, raced>>

Push2Start ==
    /\ prod2.pc = "idle" /\ nextId <= MaxCalls
    /\ prod2' = [pc |-> "tail_cas", size |-> rb.size, item |-> nextId,
                 prev |-> rb.tail, slot |-> 0]
    /\ nextId' = nextId + 1
    /\ UNCHANGED <<rb, wbuf, filled>>
    /\ Prod2Unchanged

Push2TailCas ==
    /\ prod2.pc = "tail_cas"
    /\ CasHolds(rb.tail, prod2.prev)
    /\ rb' = [rb EXCEPT !.tail = NextIdx(prod2.prev, prod2.size)]
    /\ prod2' = [prod2 EXCEPT !.pc = "write",
                              !.slot = PushSlot(prod2.prev, prod2.size)]
    /\ filled' = (filled \/ prod2.item - Len(popped) >= rb.size)
    /\ UNCHANGED <<nextId, wbuf>>
    /\ Prod2Unchanged

Push2TailRetry ==
    /\ prod2.pc = "tail_cas"
    /\ prod2' = [prod2 EXCEPT !.prev = PrevAfterFail(rb.tail, prod2.prev)]
    /\ UNCHANGED <<rb, nextId, wbuf, filled>>
    /\ Prod2Unchanged

Push2Write ==
    /\ prod2.pc = "write"
    /\ wbuf' = Append(wbuf, [slot |-> prod2.slot, item |-> prod2.item])
    /\ prod2' = [prod2 EXCEPT !.pc = "len_cas", !.prev = rb.len]
    /\ UNCHANGED <<rb, nextId, filled>>
    /\ Prod2Unchanged

Push2LenCas ==
    /\ prod2.pc = "len_cas"
    /\ CasHolds(rb.len, prod2.prev)
    /\ rb' = [rb EXCEPT !.len = LenAfterPush(prod2.prev, prod2.size)]
    /\ prod2' = [pc |-> "idle"]
    /\ UNCHANGED <<nextId, wbuf, filled>>
    /\ Prod2Unchanged

Push2LenRetry ==
    /\ prod2.pc = "len_cas"
    /\ prod2' = [prod2 EXCEPT !.prev = PrevAfterFail(rb.len, prod2.prev)]
    /\ UNCHANGED <<rb, nextId, wbuf, filled>>
    /\ Prod2Unchanged

Prod2Step ==
    Push2Start \/ Push2TailCas \/ Push2TailRetry \/ Push2Write
        \/ Push2LenCas \/ Push2LenRetry

MpscNext == ProdStep \/ Prod2Step \/ ConsStep \/ WriteVisible

MpscSpec == ConcInit /\ [][MpscNext]_vars


\* The pushes that have returned, and the pops that have returned Some.
PushesDone ==
    (nextId - 1) - (IF prod.pc = "idle" THEN 0 ELSE 1)
                 - (IF prod2.pc = "idle" THEN 0 ELSE 1)

PopsDone == Len(popped) - (IF cons.pc = "len_sub" THEN 1 ELSE 0)

\* C20: with two threads in push and one in pop, on a queue that has not
\* become full: two pushes that have advanced tail and not yet written hold
\* distinct slots; len has grown by one per push that returned (and shrunk
\* by one per pop that returned); and the slot a pop has read is not one
\* whose push has advanced tail and not yet written it.
C20_TwoProducers ==
    ~filled =>
        /\ (prod.pc = "write" /\ prod2.pc = "write") =>
               prod.slot # prod2.slot
        /\ rb.len = PushesDone - PopsDone
        /\ ~(cons.pc = "len_sub" /\ prod.pc = "write"
                /\ prod.slot = cons.slot)
        /\ ~(cons.pc = "len_sub" /\ prod2.pc = "write"
                /\ prod2.slot = cons.slot)

====
